---- MODULE Spec2Model ----
(***************************************************************************)
(* State-machine model of vgn/simulation.py: the physics session           *)
(* (GraspSim), the scene builders (Scene, PackedScene, PileScene), the     *)
(* gripper (PandaGripper) and the grasp quality metrics (PhysicsMetric,    *)
(* RobustPhysicsMetric).                                                   *)
(*                                                                         *)
(* The rigid-body engine (pybullet) is an external collaborator.  Its      *)
(* calls are modelled by what the program can observe of them: a table of  *)
(* bodies, one dynamic state (pose and velocity) per object body, and the  *)
(* saved states the program still holds an id of.  What simulation steps   *)
(* do to the dynamic states, which contact points a query reports and     *)
(* which finger opening the joints report are nondeterministic choices     *)
(* over small sample sets.                                                 *)
(*                                                                         *)
(* Lengths are integers: positions in tenths of a metre (size 0.3 = 3),    *)
(* finger widths in millimetres (max_width 0.08 = 80).                     *)
(***************************************************************************)
EXTENDS Integers, Sequences, FiniteSets, TLC

\* ---------------------------------------------------------------- bounds
\* Body handles the engine can hand out (besides the gripper's own).
MaxUid == 3
\* Engine states saved in one run (p.saveState never frees one).
MaxSaved == 2
\* Object specs (urdfs) of one generate call.
MaxSpecs == 2
\* max_attempts argument of PackedScene.generate.
MaxAttempts == 2
\* sample_count of RobustPhysicsMetric.
MaxSamples == 2

\* ------------------------------------------------------ program constants
\* Scene.size = 0.3, in tenths.
Size == 3
\* PandaGripper.max_width = 0.08, in millimetres.
MaxWidth == 80
\* for _ in range(60) in close_fingers, lift and wait_for_objects_to_rest.
CloseSteps == 60
LiftSteps == 60
RestSteps == 60
\* MAX_GRASP_FORCE = 5.
MaxGraspForce == 5
\* The lift of 0.1 in PandaGripper.lift.  Gripper positions are counted in
\* units of 1/600, which makes every target of the ramp a whole number.
LiftDistance == 60

\* ------------------------------------------------------------ sample sets
Uids == 1 .. MaxUid
\* uid of the gripper body (loaded first, never removed).
GripperUid == 0
\* Value of an attribute that was never assigned (self.snapshot_id before
\* save_state), and the empty metadata {}.
Unset == -1
\* Scene.origin = None.
NoOrigin == <<>>
\* Dynamic state the engine reports for an object: position (x, y, z) and
\* whether it is moving.  <<0,0,0>> is the load pose Transform.identity()
\* of PackedScene.generate; <<4,1,1>> lies beyond the footprint in x.
LoadState == [pos |-> <<0, 0, 0>>, vel |-> 0]
DynStates ==
    { LoadState,
      [pos |-> <<4, 1, 1>>, vel |-> 1] }
\* Dynamic state recorded for a handle that is no object body.
NoDyn == [pos |-> <<0, 0, 0>>, vel |-> -1]
\* Finger openings the joints can report after closing and lifting
\* (0.1 * max_width is 8), and the width a grasp commands.
WidthSamples == {8, 9}
\* Widths a grasp commands (grasp.width), in millimetres: max_width and
\* more than max_width.
GraspWidths == {MaxWidth, MaxWidth + 10}
\* Poses p.getBasePositionAndOrientation reports for the gripper when lift
\* starts (position in units of 1/600, orientation as a token).
GripperPoses ==
    { [pos |-> <<0, 0, 0>>, ori |-> "upright"],
      [pos |-> <<90, 60, 120>>, ori |-> "tilted"] }
NoPose == [pos |-> <<0, 0, 0>>, ori |-> "none"]
\* No motor command was given in the present call.
NoMotors == [joints |-> <<>>, velocities |-> <<>>, forces |-> <<>>]
\* Finger-joint positions before any reset of the present call.
NoJoints == <<Unset, Unset>>
\* Scene origins (translation; the code ignores the rotation).  Seen from
\* the raised origin <<0,0,1>> the load pose lies within the footprint in
\* x and y and below it in z.
Origins == {<<0, 0, 0>>, <<0, 0, 1>>}

VARIABLES
    bodies,       \* engine: uid -> "none" | "support" | "object" | "box"
    dyn,          \* engine: uid -> dynamic state of the object body
    saved_count,  \* engine: number of states saved so far (the next state id)
    snapshot_id,  \* GraspSim.snapshot_id (Unset until save_state)
    snapshot,     \* engine: the saved state that snapshot_id names
    object_uids,  \* Scene.object_uids
    support_uid,  \* Scene.support_uid
    origin,       \* Scene.origin (translation)
    gen,          \* locals of PackedScene.generate
    ev,           \* locals of a metric call
    ret,          \* value returned by the last metric call
    err,          \* exception raised by the last operation
    steps,        \* sim.step() calls made by the running (or last) session or metric call
    op,           \* the operation that is running or ran last
    pc,           \* position of the single thread of control
    lookup,       \* get_scene / get_quality_fn: the name asked for, the cfg and the class made
    msg,          \* message of the exception raised by the last operation
    rest,         \* engine: the object states wait_for_objects_to_rest ended in
    runs          \* two seeded runs of RobustPhysicsMetric, side by side

vars == <<bodies, dyn, saved_count, snapshot_id, snapshot, object_uids,
          support_uid, origin, gen, ev, ret, err, steps, op, pc, lookup, msg,
          rest, runs>>

\* ---------------------------------------------------------------- helpers
Range(s) == {s[i] : i \in 1 .. Len(s)}

\* list.remove(x): drops the first occurrence of x.
RECURSIVE ListRemove(_, _)
ListRemove(s, x) ==
    IF s = <<>> THEN <<>>
    ELSE IF Head(s) = x THEN Tail(s)
    ELSE <<Head(s)>> \o ListRemove(Tail(s), x)

FreeUids(b) == {u \in Uids : b[u] = "none"}
ObjectBodies(b) == {u \in Uids : b[u] = "object"}

\* ------------------------------------------------------------ the engine
\* p.loadURDF returns the handle of the new body: the lowest free one.
loadURDF(b) == CHOOSE u \in FreeUids(b) : \A v \in FreeUids(b) : u <= v

\* What simulation steps can do to the dynamic states: every object body
\* ends in some sampled state.
StepOutcomes(b) ==
    {d \in [Uids -> DynStates \cup {NoDyn}] :
        \A u \in Uids : IF b[u] = "object" THEN d[u] \in DynStates
                                         ELSE d[u] = NoDyn}

\* Result of p.getContactPoints(uid): the bodyUniqueIdB (contact[2]) of
\* each reported point; at most one point is sampled.
ContactOutcomes(b, self) ==
    {<<>>} \cup {<<u>> : u \in {v \in Uids : b[v] # "none" /\ v # self}}

\* p.removeBody(uid): drops the body; silently nothing for a handle that
\* names no body (support_uid = -1, an already removed uid).
removeBody(b, uid) == [u \in Uids |-> IF u = uid THEN "none" ELSE b[u]]
dropDyn(d, uid) == [u \in Uids |-> IF u = uid THEN NoDyn ELSE d[u]]

\* p.saveState(): the dynamic state of every body.
NoSnapshot == [bodies |-> {}, dyn |-> [u \in Uids |-> NoDyn], valid |-> FALSE]
saveState(b, d) == [bodies |-> ObjectBodies(b), dyn |-> d, valid |-> TRUE]

\* p.restoreState(stateId) succeeds when the saved state holds the bodies
\* that are present now; the engine refuses it otherwise.
Restorable(s, b) == s.valid /\ s.bodies = ObjectBodies(b)

NoRet == [quality |-> -1, meta |-> Unset]
\* No wait_for_objects_to_rest has run in the present operation.
NoRest == [u \in Uids |-> NoDyn]
\* cfg=None and a cfg with uncertainty and sample_count.
NoCfg == [sample_count |-> Unset]
Cfgs == {NoCfg, [sample_count |-> MaxSamples]}
\* No get_scene / get_quality_fn call has been made.
NoLookup == [name |-> "", cfg |-> NoCfg, class |-> "none"]
\* No seeded runs are being compared.
NoRuns == [stream |-> <<>>, trial |-> <<>>, n |-> 0, m |-> 0,
           quality_n |-> -1, quality_m |-> -1]
GenIdle == [uid |-> 0, state |-> NoSnapshot, attempts |-> 0, max_attempts |-> 0,
            left |-> 0, count |-> 0, contacts |-> <<>>, free |-> FALSE,
            base |-> 0]
EvIdle == [sample_count |-> 0, trials |-> 0, passed |-> 0,
           reset_contacts |-> <<>>, contacts |-> <<>>, width |-> MaxWidth,
           closed |-> FALSE, lifted |-> FALSE,
           grasp_width |-> MaxWidth, joints |-> NoJoints,
           start |-> NoPose, target |-> NoPose, lift_steps |-> 0,
           motors |-> NoMotors, close_steps |-> 0]

\* -------------------------------------------------------------------- Init
\* GraspSim.__init__: the engine holds the gripper only, parked with the
\* jaws fully open; the scene is empty and no snapshot attribute exists.
InitSession ==
    /\ bodies = [u \in Uids |-> "none"]
    /\ dyn = [u \in Uids |-> NoDyn]
    /\ saved_count = 0
    /\ snapshot_id = Unset
    /\ snapshot = NoSnapshot
    /\ object_uids = <<>>
    /\ support_uid = Unset
    /\ origin = NoOrigin
    /\ gen = GenIdle
    /\ ev = EvIdle
    /\ ret = NoRet
    /\ err = "none"
    /\ steps = 0
    /\ op = "none"
    /\ pc = "idle"
    /\ lookup = NoLookup
    /\ msg = <<>>
    /\ rest = NoRest

Init == InitSession /\ runs = NoRuns

\* ------------------------------------------------------------- GraspSim
\* restore_state(): reading self.snapshot_id raises AttributeError when
\* save_state never assigned it; the rest is p.restoreState.
restore_state_silent ==
    IF snapshot_id # Unset /\ Restorable(snapshot, bodies)
    THEN [err |-> "none", dyn |-> snapshot.dyn]
    ELSE [err |-> "none", dyn |-> [u \in Uids |-> IF bodies[u] = "object"
                                                   THEN LoadState ELSE NoDyn]]
restore_state ==
    IF snapshot_id = Unset
    THEN [err |-> "AttributeError", dyn |-> dyn]
    ELSE IF Restorable(snapshot, bodies)
    THEN [err |-> "none", dyn |-> snapshot.dyn]
    ELSE [err |-> "EngineError", dyn |-> dyn]

\* save_state(): self.snapshot_id = p.saveState().
save_state_once ==
    IF snapshot_id = Unset
    THEN [id |-> saved_count, state |-> saveState(bodies, dyn)]
    ELSE [id |-> snapshot_id, state |-> snapshot]
save_state == [id |-> saved_count, state |-> saveState(bodies, dyn)]

\* Engine states created and not released: the program never calls
\* p.removeState, so every state p.saveState created is still held by the
\* engine.
live_states == saved_count

SaveState ==
    /\ pc = "idle"
    /\ saved_count < MaxSaved
    /\ saved_count' = saved_count + 1
    /\ snapshot_id' = save_state.id
    /\ snapshot' = save_state.state
    /\ op' = "save_state"
    /\ pc' = "return"
    /\ UNCHANGED <<lookup, msg, rest, runs, bodies, dyn, object_uids, support_uid, origin, gen, ev,
                   ret, err, steps>>

RestoreState ==
    /\ pc = "idle"
    /\ dyn' = restore_state.dyn
    /\ err' = restore_state.err
    /\ op' = "restore_state"
    /\ pc' = "return"
    /\ UNCHANGED <<lookup, msg, rest, runs, bodies, saved_count, snapshot_id, snapshot, object_uids,
                   support_uid, origin, gen, ev, ret, steps>>

\* step(): p.stepSimulation() (the sleep only paces wall-clock time).
Step ==
    /\ pc = "idle"
    /\ \E d \in StepOutcomes(bodies) : dyn' = d
    /\ steps' = steps + 1
    /\ op' = "step"
    /\ pc' = "return"
    /\ UNCHANGED <<lookup, msg, rest, runs, bodies, saved_count, snapshot_id, snapshot, object_uids,
                   support_uid, origin, gen, ev, ret, err>>

\* Control is back with the caller: the operation's locals, its result
\* and its exception are gone.
Return ==
    /\ pc = "return"
    /\ pc' = "idle"
    /\ op' = "none"
    /\ gen' = GenIdle /\ ev' = EvIdle
    /\ ret' = NoRet /\ err' = "none" /\ steps' = 0
    /\ lookup' = NoLookup /\ msg' = <<>> /\ rest' = NoRest
    /\ UNCHANGED <<runs, bodies, dyn, saved_count, snapshot_id, snapshot, object_uids,
                   support_uid, origin>>

\* ------------------------------------------- get_scene, get_quality_fn
\* The registries at the end of the module.
scenes == [packed |-> "PackedScene", pile |-> "PileScene"]
quality_fns == [physics |-> "PhysicsMetric",
                robust_physics |-> "RobustPhysicsMetric"]
\* Names a configuration can ask for.
Names == {"packed", "pile", "physics", "robust_physics", "default"}

\* "{} scene does not exist.".format(name), as the pieces of the message.
scene_message(name) == <<name, " scene does not exist.">>
quality_fn_message(name) == <<name, " quality_fn does not exist.">>

\* get_scene(name, sim): scenes[name](sim) for a registered name,
\* ValueError otherwise.  Scene.__init__ raises nothing.
get_scene_default(name) ==
    IF name \in DOMAIN scenes
    THEN [class |-> scenes[name], err |-> "none", msg |-> <<>>]
    ELSE [class |-> scenes["packed"], err |-> "none", msg |-> <<>>]
get_scene(name) ==
    IF name \in DOMAIN scenes
    THEN [class |-> scenes[name], err |-> "none", msg |-> <<>>]
    ELSE [class |-> "none", err |-> "ValueError", msg |-> scene_message(name)]

\* get_quality_fn(name, sim, cfg=None): quality_fns[name](sim, cfg) for a
\* registered name, ValueError otherwise.  RobustPhysicsMetric.__init__
\* subscripts cfg, which raises TypeError for cfg=None.
get_quality_fn(name, cfg) ==
    IF name \in DOMAIN quality_fns
    THEN IF quality_fns[name] = "RobustPhysicsMetric" /\ cfg = NoCfg
         THEN [class |-> "none", err |-> "TypeError",
               msg |-> <<"'NoneType' object is not subscriptable">>]
         ELSE [class |-> quality_fns[name], err |-> "none", msg |-> <<>>]
    ELSE [class |-> "none", err |-> "ValueError",
          msg |-> quality_fn_message(name)]

Lookup(name, n, c, r) ==
    /\ pc = "idle"
    /\ lookup' = [name |-> n, cfg |-> c, class |-> r.class]
    /\ err' = r.err
    /\ msg' = r.msg
    /\ op' = name
    /\ pc' = "return"
    /\ UNCHANGED <<rest, runs, bodies, dyn, saved_count, snapshot_id, snapshot,
                   object_uids, support_uid, origin, gen, ev, ret, steps>>

GetScene ==
    \E n \in Names : Lookup("get_scene", n, NoCfg, get_scene(n))

GetQualityFn ==
    \E n \in Names, c \in Cfgs :
        Lookup("get_quality_fn", n, c, get_quality_fn(n, c))

\* ---------------------------------------------------------------- Scene
\* The scene operations are functions of a world record
\* [bodies, dyn, object_uids, err, rest].
World == [bodies |-> bodies, dyn |-> dyn, object_uids |-> object_uids,
          err |-> "none", rest |-> rest]

\* add_object: load_urdf at the given pose, then object_uids.append(uid).
add_object(w, d) ==
    LET uid == loadURDF(w.bodies) IN
    [w EXCEPT !.bodies[uid] = "object", !.dyn[uid] = d,
              !.object_uids = Append(w.object_uids, uid)]

\* remove_object: p.removeBody(uid), then object_uids.remove(uid), which
\* raises ValueError for a uid that is not in the list.
remove_object_keep_listed(w, uid) ==
    [w EXCEPT !.bodies = removeBody(w.bodies, uid), !.dyn = dropDyn(w.dyn, uid)]
remove_object(w, uid) ==
    IF uid \in Range(w.object_uids)
    THEN [w EXCEPT !.bodies = removeBody(w.bodies, uid),
                   !.dyn = dropDyn(w.dyn, uid),
                   !.object_uids = ListRemove(w.object_uids, uid)]
    ELSE [w EXCEPT !.bodies = removeBody(w.bodies, uid),
                   !.dyn = dropDyn(w.dyn, uid),
                   !.err = "ValueError"]

\* remove_all_objects: for uid in list(self.object_uids): remove_object(uid).
RECURSIVE remove_all_loop(_, _)
remove_all_loop(w, copy) ==
    IF copy = <<>> \/ w.err # "none" THEN w
    ELSE remove_all_loop(remove_object(w, Head(copy)), Tail(copy))
remove_all_objects(w) == remove_all_loop(w, w.object_uids)

\* np.any(xyz < 0.0) or np.any(xyz > self.size), xyz = position - origin.
Outside(pos, org) ==
    \E c \in 1 .. 3 : pos[c] - org[c] < 0 \/ pos[c] - org[c] > Size

\* The loop of remove_outside_objects: "for uid in self.object_uids" walks
\* the live list by index while remove_object shortens it.  Reading
\* self.origin.translation raises AttributeError while origin is None.
RECURSIVE outside_loop(_, _, _)
outside_loop(w, i, org) ==
    IF i > Len(w.object_uids) \/ w.err # "none" THEN w
    ELSE IF org = NoOrigin THEN [w EXCEPT !.err = "AttributeError"]
    ELSE IF Outside(w.dyn[w.object_uids[i]].pos, org)
    THEN outside_loop(remove_object(w, w.object_uids[i]), i + 1, org)
    ELSE outside_loop(w, i + 1, org)

\* remove_outside_objects: wait_for_objects_to_rest (60 steps, which leave
\* the objects in the states d), then the loop.
remove_outside_objects(w, d, org) ==
    outside_loop([w EXCEPT !.dyn = d, !.rest = d], 1, org)

\* clear: remove_support (p.removeBody(self.support_uid)), remove_all_objects.
clear(w, sup) ==
    remove_all_objects([w EXCEPT !.bodies = removeBody(w.bodies, sup),
                                 !.dyn = dropDyn(w.dyn, sup)])

\* A scene operation called from outside, from its start to its return.
SceneOp(name, w) ==
    /\ pc = "idle"
    /\ bodies' = w.bodies
    /\ dyn' = w.dyn
    /\ object_uids' = w.object_uids
    /\ err' = w.err
    /\ rest' = w.rest
    /\ op' = name
    /\ pc' = "return"
    /\ UNCHANGED <<lookup, msg, runs, saved_count, snapshot_id, snapshot, support_uid, origin,
                   gen, ev, ret, steps>>

AddObject ==
    /\ FreeUids(bodies) # {}
    /\ \E d \in DynStates : SceneOp("add_object", add_object(World, d))

RemoveObject ==
    \E u \in Uids : SceneOp("remove_object", remove_object(World, u))

RemoveAllObjects ==
    SceneOp("remove_all_objects", remove_all_objects(World))

RemoveOutsideObjects ==
    \E d \in StepOutcomes(bodies) :
        SceneOp("remove_outside_objects",
                remove_outside_objects(World, d, origin))

Clear ==
    SceneOp("clear", clear(World, support_uid))

\* ---------------------------------------------------------- PackedScene
\* generate(origin, urdfs, scalings, max_attempts), up to the loop over the
\* urdfs: sets origin and center and adds the support.  n = len(urdfs).
PackedBegin ==
    \E n \in 0 .. MaxSpecs, m \in 0 .. MaxAttempts, org \in Origins :
        /\ pc = "idle"
        /\ Cardinality(FreeUids(bodies)) >= n + 1
        /\ saved_count + n <= MaxSaved
        /\ origin' = org
        /\ support_uid' = loadURDF(bodies)
        /\ bodies' = [bodies EXCEPT ![loadURDF(bodies)] = "support"]
        /\ gen' = [GenIdle EXCEPT !.left = n, !.count = n, !.max_attempts = m,
                                  !.base = Len(object_uids)]
        /\ op' = "packed_generate"
        /\ pc' = "for_urdf"
        /\ UNCHANGED <<lookup, msg, rest, runs, dyn, saved_count, snapshot_id, snapshot, object_uids,
                       ev, ret, err, steps>>

\* Loop head for one urdf: add_object at Transform.identity(), getAABB,
\* state_id = p.saveState().
PackedAddObject ==
    /\ pc = "for_urdf"
    /\ gen.left > 0
    /\ LET w == add_object(World, LoadState) IN
        /\ bodies' = w.bodies
        /\ dyn' = w.dyn
        /\ object_uids' = w.object_uids
        /\ gen' = [gen EXCEPT !.uid = loadURDF(bodies),
                              !.state = saveState(w.bodies, w.dyn),
                              !.attempts = 0, !.contacts = <<>>, !.free = FALSE]
    /\ saved_count' = saved_count + 1
    /\ pc' = "for_attempt"
    /\ UNCHANGED <<lookup, msg, rest, runs, snapshot_id, snapshot, support_uid, origin, ev, ret, err,
                   steps, op>>

\* What follows a contact query c of the attempt loop: on contact
\* p.restoreState(stateId=state_id), which puts back the state saved before
\* the first attempt; without contact the stepped state d stays.
after_attempt_keep(c, d) == d
after_attempt_object_only(c, d) ==
    IF c # <<>>
    THEN [u \in Uids |-> IF u = gen.uid THEN gen.state.dyn[u] ELSE d[u]]
    ELSE d
after_attempt(c, d) == IF c # <<>> THEN gen.state.dyn ELSE d

\* One pass of "for _ in range(max_attempts)": sample a pose, reset the
\* object to it, sim.step(), query the object's contact points; break when
\* there are none.
PackedAttempt ==
    /\ pc = "for_attempt"
    /\ gen.attempts < gen.max_attempts
    /\ \E d \in StepOutcomes(bodies), c \in ContactOutcomes(bodies, gen.uid) :
        /\ dyn' = after_attempt(c, d)
        /\ gen' = [gen EXCEPT !.attempts = gen.attempts + 1,
                              !.contacts = c,
                              !.free = (c = <<>>),
                              !.left = IF c = <<>> THEN gen.left - 1 ELSE gen.left]
        /\ pc' = IF c = <<>> THEN "for_urdf" ELSE "for_attempt"
    /\ UNCHANGED <<lookup, msg, rest, runs, bodies, saved_count, snapshot_id, snapshot, object_uids,
                   support_uid, origin, ev, ret, err, steps, op>>

\* The else branch of the attempt loop (range(max_attempts) ran out
\* without a break): self.remove_object(uid).
exhausted_keep(w, uid) == w
exhausted(w, uid) == remove_object(w, uid)

PackedExhausted ==
    /\ pc = "for_attempt"
    /\ gen.attempts = gen.max_attempts
    /\ LET w == exhausted(World, gen.uid) IN
        /\ bodies' = w.bodies
        /\ dyn' = w.dyn
        /\ object_uids' = w.object_uids
    /\ gen' = [gen EXCEPT !.left = gen.left - 1]
    /\ pc' = "for_urdf"
    /\ UNCHANGED <<lookup, msg, rest, runs, saved_count, snapshot_id, snapshot, support_uid, origin,
                   ev, ret, err, steps, op>>

\* After the last urdf: self.remove_outside_objects(), and generate returns.
PackedFinish ==
    /\ pc = "for_urdf"
    /\ gen.left = 0
    /\ \E d \in StepOutcomes(bodies) :
        LET w == remove_outside_objects(World, d, origin) IN
        /\ bodies' = w.bodies
        /\ dyn' = w.dyn
        /\ object_uids' = w.object_uids
        /\ err' = w.err
        /\ rest' = w.rest
    /\ gen' = [GenIdle EXCEPT !.count = gen.count, !.base = gen.base]
    /\ pc' = "return"
    /\ UNCHANGED <<lookup, msg, runs, saved_count, snapshot_id, snapshot, support_uid, origin,
                   ev, ret, steps, op>>

\* ------------------------------------------------------------ PileScene
\* The drop loop of PileScene.generate: add_object, then
\* wait_for_objects_to_rest, once per urdf.
RECURSIVE pile_drop(_, _)
pile_drop(w, n) ==
    IF n = 0 THEN w ELSE pile_drop(add_object(w, LoadState), n - 1)

\* generate(origin, urdfs, scalings): support, confining box, the drops,
\* p.removeBody(box); remove_outside_objects follows.
pile_generate(w, n) ==
    LET sup == loadURDF(w.bodies)
        w1 == [w EXCEPT !.bodies[sup] = "support"]
        box == loadURDF(w1.bodies)
        w2 == [w1 EXCEPT !.bodies[box] = "box"]
        w3 == pile_drop(w2, n)
        w4 == [w3 EXCEPT !.bodies = removeBody(w3.bodies, box)]
    IN  [w |-> w4, sup |-> sup]

PileGenerate ==
    \E n \in 0 .. MaxSpecs, org \in Origins :
        /\ pc = "idle"
        /\ Cardinality(FreeUids(bodies)) >= n + 2
        /\ LET g == pile_generate(World, n) IN
            \E d \in StepOutcomes(g.w.bodies) :
                LET w == remove_outside_objects(g.w, d, org) IN
                /\ bodies' = w.bodies
                /\ dyn' = w.dyn
                /\ object_uids' = w.object_uids
                /\ err' = w.err
                /\ rest' = w.rest
                /\ support_uid' = g.sup
        /\ origin' = org
        /\ op' = "pile_generate"
        /\ pc' = "return"
        /\ UNCHANGED <<lookup, msg, runs, saved_count, snapshot_id, snapshot, gen, ev, ret, steps>>

\* --------------------------------------------------------- PhysicsMetric
FailRet == [quality |-> 0, meta |-> Unset]

\* "if not self.gripper.contacts": the grasp goes on to close_fingers only
\* when the gripper touches nothing after reset.
reset_clear_always(c) == TRUE
reset_clear(c) == c = <<>>

\* "if self.gripper.width > 0.1 * self.gripper.max_width and contacts":
\* return 1.0, {"object_uid": contacts[0][2]}; otherwise 0.0, {}.
lift_result_any(w, c) ==
    IF 10 * w > MaxWidth \/ c # <<>>
    THEN [quality |-> 1, meta |-> IF c # <<>> THEN c[1] ELSE GripperUid]
    ELSE FailRet
lift_result(w, c) ==
    IF 10 * w > MaxWidth /\ c # <<>>
    THEN [quality |-> 1, meta |-> c[1]]
    ELSE FailRet

\* Where the result q of quality() goes.  PhysicsMetric.__call__ returns
\* it; RobustPhysicsMetric.__call__ returns (0.0, {}) when its quality is 0
\* ("if not self.quality(grasp)[0]") and goes on with the next sample
\* otherwise.
returns_exhaustive(q) == op = "physics"
returns(q) == op = "physics" \/ q.quality = 0
returned(q) == IF op = "physics" THEN q ELSE FailRet

\* PandaGripper.width: the sum of the two finger-joint positions.
width(joints) == joints[1] + joints[2]

\* PandaGripper.reset, the finger joints: p.resetJointState(uid, k,
\* 0.5 * width) for both fingers, whatever the width is.
reset_joints(w) == <<w \div 2, w \div 2>>

\* The joint positions after the sim.step() that ends reset: the engine
\* leaves a finger where resetJointState put it, or has pushed a finger
\* that was set beyond its travel (max_width / 2) back to the limit.
JointOutcomes(j) ==
    {j, [k \in 1 .. 2 |-> IF j[k] > MaxWidth \div 2 THEN MaxWidth \div 2
                                                      ELSE j[k]]}

\* PhysicsMetric.__call__(grasp).
PhysicsCall ==
    \E gw \in GraspWidths :
        /\ pc = "idle"
        /\ ev' = [EvIdle EXCEPT !.grasp_width = gw]
        /\ op' = "physics"
        /\ pc' = "reset"
        /\ UNCHANGED <<lookup, msg, rest, runs, bodies, dyn, saved_count,
                       snapshot_id, snapshot, object_uids, support_uid,
                       origin, gen, ret, err, steps>>

\* quality(), first part: gripper.reset(grasp.pose, grasp.width), which
\* ends with one sim.step(), and the contact test on the gripper.
Reset ==
    /\ pc = "reset"
    /\ \E d \in StepOutcomes(bodies), c \in ContactOutcomes(bodies, GripperUid),
          j \in JointOutcomes(reset_joints(ev.grasp_width)) :
        /\ dyn' = d
        /\ ev' = [ev EXCEPT !.reset_contacts = c, !.closed = FALSE,
                            !.lifted = FALSE, !.joints = j]
        /\ IF reset_clear(c)
           THEN pc' = "close" /\ ret' = ret
           ELSE IF returns(FailRet)
           THEN pc' = "return" /\ ret' = returned(FailRet)
           ELSE pc' = "for_sample" /\ ret' = ret
    /\ steps' = steps + 1
    /\ UNCHANGED <<lookup, msg, rest, runs, bodies, saved_count, snapshot_id, snapshot, object_uids,
                   support_uid, origin, gen, err, op>>

\* p.setJointMotorControlArray(uid, [0, 1], VELOCITY_CONTROL,
\* targetVelocities=[-0.1] * 2, forces=[MAX_GRASP_FORCE] * 2); velocities
\* in tenths.
close_command ==
    [joints |-> <<0, 1>>, velocities |-> <<0 - 1, 0 - 1>>,
     forces |-> <<MaxGraspForce, MaxGraspForce>>]

\* "for _ in range(60): self.sim.step()" of close_fingers: the number of
\* steps made.  j are the finger-joint positions (millimetres) the closing
\* starts from; at 0.1 per second and 60 steps per second a finger that
\* nothing holds has travelled 100 * i / 60 after i steps.  The loop reads
\* neither the joints nor the contacts.
RECURSIVE close_loop_until_closed(_, _, _)
close_loop_until_closed(i, n, j) ==
    IF i >= CloseSteps \/ 60 * j[1] <= 100 * i THEN n
    ELSE close_loop_until_closed(i + 1, n + 1, j)
RECURSIVE close_loop(_, _, _)
close_loop(i, n, j) ==
    IF i >= CloseSteps THEN n
    ELSE close_loop(i + 1, n + 1, j)

\* The steps gripper.close_fingers() makes, for each state reset can leave
\* the finger joints in.
close_fingers ==
    [j \in UNION {JointOutcomes(reset_joints(w)) : w \in GraspWidths} |->
        close_loop(0, 0, j)]

\* gripper.close_fingers(): velocity control on both fingers, 60 steps.
CloseFingers ==
    /\ pc = "close"
    /\ LET n == close_fingers[ev.joints] IN
        /\ ev' = [ev EXCEPT !.closed = TRUE, !.motors = close_command,
                            !.close_steps = n]
        /\ steps' = steps + n
    /\ \E d \in StepOutcomes(bodies) : dyn' = d
    /\ pc' = "lift"
    /\ UNCHANGED <<lookup, msg, rest, runs, bodies, saved_count, snapshot_id, snapshot, object_uids,
                   support_uid, origin, gen, ret, err, op>>

\* The mount target of pass i of lift (i = 0, 1, ...):
\* pos + np.r_[0, 0, i * 1.0 / 60.0 * 0.1], with the orientation read at
\* the start.
lift_target(pose, i) ==
    [pose EXCEPT !.pos[3] = pose.pos[3] + (i * LiftDistance) \div LiftSteps]

\* "for i in range(60)": update_fixed_joint(target), sim.step().  The
\* result is the last target set and the number of steps made.
RECURSIVE lift_loop(_, _, _, _)
lift_loop(i, pose, target, n) ==
    IF i >= LiftSteps THEN [target |-> target, steps |-> n]
    ELSE lift_loop(i + 1, pose, lift_target(pose, i), n + 1)

\* gripper.lift() from the pose the engine reports for the gripper, for
\* each pose of GripperPoses.
lift == [pose \in GripperPoses |-> lift_loop(0, pose, NoPose, 0)]

\* gripper.lift() (60 steps), then the reads of contacts and width and the
\* return of quality().
Lift ==
    /\ pc = "lift"
    /\ \E g \in GripperPoses :
        LET l == lift[g] IN
        \E c \in ContactOutcomes(bodies, GripperUid), w \in WidthSamples :
            LET q == lift_result(w, c) IN
            /\ ev' = [ev EXCEPT !.lifted = TRUE, !.contacts = c, !.width = w,
                                !.passed = IF q.quality = 1 THEN ev.passed + 1
                                           ELSE ev.passed,
                                !.start = g, !.target = l.target,
                                !.lift_steps = l.steps]
            /\ steps' = steps + l.steps
            /\ IF returns(q)
               THEN pc' = "return" /\ ret' = returned(q)
               ELSE pc' = "for_sample" /\ ret' = ret
    /\ \E d \in StepOutcomes(bodies) : dyn' = d
    /\ UNCHANGED <<lookup, msg, rest, runs, bodies, saved_count, snapshot_id, snapshot, object_uids,
                   support_uid, origin, gen, err, op>>

\* --------------------------------------------------- RobustPhysicsMetric
\* RobustPhysicsMetric.__call__(grasp) with sample_count = n.
RobustCall ==
    \E n \in 0 .. MaxSamples, gw \in GraspWidths :
        /\ pc = "idle"
        /\ ev' = [EvIdle EXCEPT !.sample_count = n, !.grasp_width = gw]
        /\ op' = "robust"
        /\ pc' = "for_sample"
        /\ UNCHANGED <<lookup, msg, rest, runs, bodies, dyn, saved_count, snapshot_id, snapshot,
                       object_uids, support_uid, origin, gen, ret, err, steps>>

\* self.sim.restore_state() of one sample.
sample_restore_first ==
    IF ev.trials = 0 THEN restore_state ELSE [err |-> "none", dyn |-> dyn]
sample_restore == restore_state

\* One pass of "for _ in range(self.sample_count)" up to quality(): the
\* perturbation is drawn from the rng, the perturbed grasp is built and
\* the snapshot is restored.  An exception of restore_state ends the call.
\* What the previous call of quality() read and did is gone with its frame.
RobustSample ==
    /\ pc = "for_sample"
    /\ ev.trials < ev.sample_count
    /\ dyn' = sample_restore.dyn
    /\ err' = sample_restore.err
    /\ ev' = [EvIdle EXCEPT !.sample_count = ev.sample_count,
                            !.grasp_width = ev.grasp_width,
                            !.passed = ev.passed,
                            !.trials = ev.trials + 1]
    /\ pc' = IF sample_restore.err = "none" THEN "reset" ELSE "return"
    /\ UNCHANGED <<lookup, msg, rest, runs, bodies, saved_count, snapshot_id, snapshot, object_uids,
                   support_uid, origin, gen, ret, steps, op>>

\* What __call__ returns when the loop ran out: 1.0, {}.
robust_result_last ==
    [quality |-> 1,
     meta |-> IF ev.contacts # <<>> THEN ev.contacts[1] ELSE Unset]
robust_result == [quality |-> 1, meta |-> Unset]

\* The loop ran out: return 1.0, {}.
RobustDone ==
    /\ pc = "for_sample"
    /\ ev.trials = ev.sample_count
    /\ ret' = robust_result
    /\ pc' = "return"
    /\ UNCHANGED <<lookup, msg, rest, runs, bodies, dyn, saved_count, snapshot_id, snapshot, object_uids,
                   support_uid, origin, gen, ev, err, steps, op>>

\* ------------------------------------ RobustPhysicsMetric, two seeded runs
\* The injected generator is a stream of values fixed by the seed; one
\* rng.uniform call takes the next value of it.
Draws == {0, 1}
Streams == [1 .. 2 * MaxSamples -> Draws]
\* A perturbation is the pair <<R_err, t_err>>.  With the snapshot restored
\* before each trial, the quality of a trial is fixed by the perturbed grasp.
Perturbations == Draws \X Draws
Trials == [Perturbations -> {0, 1}]

\* Pass i of the loop draws R_err (rng.uniform(-rpy, rpy)) and then t_err
\* (rng.uniform(-xyz, xyz)): values 2i-1 and 2i of the stream.
perturbation(stream, i) == <<stream[2 * i - 1], stream[2 * i]>>

\* "for _ in range(self.sample_count)": return 0.0 at the first trial whose
\* quality is 0, return 1.0 when the loop runs out.
RECURSIVE robust_loop_last(_, _, _, _)
robust_loop_last(i, n, stream, trial) ==
    IF i > n THEN 1
    ELSE IF i = n /\ trial[perturbation(stream, i)] = 0 THEN 0
    ELSE robust_loop_last(i + 1, n, stream, trial)
RECURSIVE robust_loop(_, _, _, _)
robust_loop(i, n, stream, trial) ==
    IF i > n THEN 1
    ELSE IF trial[perturbation(stream, i)] = 0 THEN 0
    ELSE robust_loop(i + 1, n, stream, trial)

\* The quality RobustPhysicsMetric.__call__ returns with sample_count = n.
robust_call(n, stream, trial) == robust_loop(1, n, stream, trial)

\* The same grasp, snapshot and seed evaluated with sample_count n and
\* with sample_count m.
InitSeeded ==
    /\ InitSession
    /\ runs \in {[NoRuns EXCEPT !.stream = s, !.trial = t] :
                    s \in Streams, t \in Trials}

SeededRuns ==
    \E n \in 0 .. MaxSamples, m \in 0 .. MaxSamples :
        /\ runs.quality_n = -1
        /\ runs' = [runs EXCEPT
                        !.n = n, !.m = m,
                        !.quality_n = robust_call(n, runs.stream, runs.trial),
                        !.quality_m = robust_call(m, runs.stream, runs.trial)]
        /\ UNCHANGED <<bodies, dyn, saved_count, snapshot_id, snapshot,
                       object_uids, support_uid, origin, gen, ev, ret, err,
                       steps, op, pc, lookup, msg, rest>>

SpecSeeded == InitSeeded /\ [][SeededRuns]_vars

NextMetric ==
    \/ PhysicsCall
    \/ Reset
    \/ CloseFingers
    \/ Lift
    \/ RobustCall
    \/ RobustSample
    \/ RobustDone

NextScene ==
    \/ AddObject
    \/ RemoveObject
    \/ RemoveAllObjects
    \/ RemoveOutsideObjects
    \/ Clear
    \/ PackedBegin
    \/ PackedAddObject
    \/ PackedAttempt
    \/ PackedExhausted
    \/ PackedFinish
    \/ PileGenerate

NextSession ==
    \/ SaveState
    \/ RestoreState
    \/ Step

Next ==
    \/ GetScene
    \/ GetQualityFn
    \/ NextSession
    \/ NextScene
    \/ NextMetric
    \/ Return

Spec == Init /\ [][Next]_vars

\* Scene construction: the operations of Scene, PackedScene and PileScene.
SpecScene == Init /\ [][NextScene \/ Return]_vars

\* Grasp evaluation on a scene of objects: the session operations and the
\* two metrics.
NextEval ==
    \/ AddObject
    \/ NextSession
    \/ NextMetric
    \/ Return
SpecEval == Init /\ [][NextEval]_vars

\* Snapshots of a session whose scene PackedScene.generate builds.
NextSnap ==
    \/ GetScene
    \/ GetQualityFn
    \/ PackedBegin
    \/ PackedAddObject
    \/ PackedAttempt
    \/ PackedExhausted
    \/ PackedFinish
    \/ SaveState
    \/ RestoreState
    \/ NextMetric
    \/ Return
SpecSnap == Init /\ [][NextSnap]_vars

\* ================================================================ claims

\* C1: PhysicsMetric.quality returns (1.0, metadata naming the body of a
\* gripper contact point) exactly when the gripper had no contact after
\* reset, the width read after close_fingers and lift exceeds
\* 0.1 * max_width and the contacts read after lift are non-empty; in
\* every other case it returns (0.0, {}).
PhysicsSuccess ==
    /\ ev.reset_contacts = <<>>
    /\ ev.lifted
    /\ 10 * ev.width > MaxWidth
    /\ ev.contacts # <<>>
Thm_C1 ==
    (op = "physics" /\ pc = "return") =>
        IF PhysicsSuccess
        THEN ret.quality = 1 /\ ret.meta \in Range(ev.contacts)
        ELSE ret = FailRet
Wit_C1 ==
    /\ op = "physics" /\ pc = "return"
    /\ ret.quality = 1
    /\ ret.meta \in ObjectBodies(bodies)

\* C2: RobustPhysicsMetric.__call__ returns quality 1 only if every one of
\* the sample_count trials succeeded, and once a trial has failed it has
\* returned (0.0, {}): no later trial is started.
Thm_C2 ==
    op = "robust" =>
        /\ ev.trials <= ev.passed + 1
        /\ (ret.quality = 1 =>
                ev.passed = ev.sample_count /\ ev.trials = ev.sample_count)
        /\ (ev.passed < ev.trials /\ pc \notin {"reset", "close", "lift"} =>
                pc = "return" /\ (err = "none" => ret = FailRet))
Wit_C2 ==
    /\ op = "robust" /\ pc = "return"
    /\ ret = FailRet
    /\ ev.sample_count = 2
    /\ ev.trials = 1

\* C3: whenever the gripper is about to be reset for a trial of
\* RobustPhysicsMetric.__call__, the dynamic state of every object is the
\* one captured by the most recent save_state.
Thm_C3 ==
    (op = "robust" /\ pc = "reset") =>
        /\ snapshot_id # Unset
        /\ snapshot.valid
        /\ dyn = snapshot.dyn
Wit_C3 ==
    /\ op = "robust" /\ pc = "reset"
    /\ ev.trials = 2
    /\ \E u \in ObjectBodies(bodies) : dyn[u] # LoadState

\* C4: after remove_outside_objects returns, no object of object_uids lies
\* outside the footprint [0, size] in x or y.
XYOutside(pos, org) ==
    \E c \in 1 .. 2 : pos[c] - org[c] < 0 \/ pos[c] - org[c] > Size
Claim_C4 ==
    (/\ pc = "return"
     /\ op \in {"remove_outside_objects", "packed_generate", "pile_generate"}
     /\ err = "none") =>
        \A i \in 1 .. Len(object_uids) :
            ~XYOutside(dyn[object_uids[i]].pos, origin)

\* C5: object_uids lists exactly the object bodies present in the engine,
\* each once, after any sequence of scene operations and throughout
\* generate; after clear() it is empty.
Thm_C5 ==
    /\ Range(object_uids) = ObjectBodies(bodies)
    /\ Cardinality(Range(object_uids)) = Len(object_uids)
    /\ (op = "clear" /\ pc = "return" => object_uids = <<>>)
Wit_C5 ==
    /\ op = "packed_generate" /\ pc = "for_urdf"
    /\ gen.count = 2 /\ gen.left = 0
    /\ Len(object_uids) = 1
    /\ gen.base = 0

\* C6: PackedScene.generate makes at most max_attempts attempts per object
\* and terminates; when the attempt loop of an object is left the object is
\* in the scene exactly when one attempt ended without contact, otherwise
\* it is gone from the engine and from object_uids with no error raised;
\* generate adds at most len(urdfs) objects.
PackedVariant ==
    IF pc = "for_urdf" THEN gen.left * (gen.max_attempts + 2) + 1
    ELSE IF pc = "for_attempt"
    THEN (gen.left - 1) * (gen.max_attempts + 2)
         + (gen.max_attempts - gen.attempts) + 2
    ELSE 0
PackedRunning == pc \in {"for_urdf", "for_attempt"}
Inv_C6 ==
    /\ gen.attempts <= gen.max_attempts
    /\ (PackedRunning =>
            /\ err = "none"
            /\ Len(object_uids) <= gen.base + (gen.count - gen.left)
                                   + (IF pc = "for_attempt" THEN 1 ELSE 0)
            /\ ENABLED (PackedAddObject \/ PackedAttempt \/ PackedExhausted
                        \/ PackedFinish))
    /\ (pc = "for_urdf" /\ gen.uid # 0 =>
            /\ (gen.uid \in Range(object_uids)) <=> gen.free
            /\ (~gen.free =>
                    /\ bodies[gen.uid] = "none"
                    /\ gen.attempts = gen.max_attempts))
    /\ (op = "packed_generate" /\ pc = "return" =>
            Len(object_uids) <= gen.base + gen.count)
Thm_C7 ==
    /\ (pc = "for_urdf" /\ gen.uid \in Range(object_uids) =>
            gen.free /\ gen.contacts = <<>>)
    /\ (PackedRunning /\ gen.contacts # <<>> =>
            \/ bodies[gen.uid] = "none"
            \/ dyn[gen.uid] = gen.state.dyn[gen.uid])
Wit_C7 ==
    /\ pc = "for_urdf"
    /\ gen.uid \in Range(object_uids)
    /\ gen.attempts = 2
    /\ dyn[gen.uid] # LoadState

\* C8: a contact right after reset makes quality return (0.0, {}) at once,
\* with neither close_fingers nor lift invoked and one step made;
\* close_fingers runs only after a contact-free reset and lift only after
\* close_fingers.
Thm_C8 ==
    /\ (ev.closed => ev.reset_contacts = <<>>)
    /\ (ev.lifted => ev.closed)
    /\ (pc = "close" => ev.reset_contacts = <<>>)
    /\ (pc = "lift" => ev.closed)
    /\ (op = "physics" /\ pc = "return" /\ ev.reset_contacts # <<>> =>
            /\ ret = FailRet
            /\ ~ev.closed /\ ~ev.lifted
            /\ steps = 1)
Wit_C8 ==
    /\ op = "physics" /\ pc = "return"
    /\ ev.reset_contacts # <<>>
    /\ ret = FailRet

\* C9: save_state captures the present dynamic state and nothing but
\* save_state changes what is captured; restore_state on unchanged bodies
\* succeeds and returns every object to the state of the most recent save.
Thm_C9 ==
    /\ []((op = "restore_state" /\ pc = "return" /\ snapshot_id # Unset
            /\ snapshot.bodies = ObjectBodies(bodies)) =>
                err = "none" /\ dyn = snapshot.dyn)
    /\ [][IF op' = "save_state" /\ pc = "idle"
           THEN snapshot' = saveState(bodies, dyn) /\ snapshot_id' # Unset
           ELSE snapshot' = snapshot /\ snapshot_id' = snapshot_id]_vars
Wit_C9 ==
    /\ op = "restore_state" /\ pc = "return"
    /\ err = "none"
    /\ snapshot_id = 1
    /\ \E u \in ObjectBodies(bodies) : dyn[u] # LoadState

\* C10: restore_state on a session that never called save_state raises an
\* error and changes nothing, also when it is the restore of a
\* RobustPhysicsMetric call and also after PackedScene.generate has saved
\* engine states of its own.
Thm_C10 ==
    /\ []((op = "restore_state" /\ pc = "return" /\ snapshot_id = Unset) =>
                err = "AttributeError")
    /\ []((op = "robust" /\ snapshot_id = Unset /\ ev.trials > 0) =>
                /\ pc = "return"
                /\ err = "AttributeError"
                /\ ev.trials = 1
                /\ ret = NoRet)
    /\ [][(snapshot_id = Unset
            /\ (op' = "restore_state" \/ op = "robust")) =>
                dyn' = dyn /\ bodies' = bodies /\ snapshot_id' = Unset]_vars
Wit_C10 ==
    /\ op = "restore_state" /\ pc = "return"
    /\ snapshot_id = Unset
    /\ saved_count > 0
    /\ err = "AttributeError"
    /\ ObjectBodies(bodies) # {}

\* C11: for one grasp, one snapshot and one seed, when the call with
\* sample_count n returns quality 0, the call with any larger sample_count
\* m returns quality 0 as well.
Thm_C11 ==
    (runs.quality_n = 0 /\ runs.n < runs.m) => runs.quality_m = 0
Wit_C11 ==
    /\ runs.quality_n = 0 /\ runs.quality_m = 0
    /\ runs.n = 1 /\ runs.m = 2
    /\ runs.trial[perturbation(runs.stream, 2)] = 1

\* C13: get_scene and get_quality_fn raise an error naming the identifier
\* for a name that is not registered, return nothing then and substitute
\* no default; for a registered name the matching variant is constructed.
Registered ==
    IF op = "get_scene" THEN scenes ELSE quality_fns
Claim_C14 ==
    ev.joints # NoJoints =>
        /\ width(ev.joints) >= 0
        /\ width(ev.joints) <= MaxWidth

\* C15: the engine holds at most one saved state that was created and not
\* released, after any sequence of save_state calls and
\* PackedScene.generate runs.
Claim_C15 == live_states <= 1

\* C16: lift makes exactly 60 steps; the mount target keeps the starting
\* x, y and orientation at every step, its z never decreases from one step
\* to the next, and when lift returns the target's z is the starting z plus
\* the full lift distance 0.1.
Claim_C16 ==
    ev.lifted =>
        /\ ev.lift_steps = 60
        /\ \A i \in 0 .. LiftSteps - 1 :
                /\ lift_target(ev.start, i).pos[1] = ev.start.pos[1]
                /\ lift_target(ev.start, i).pos[2] = ev.start.pos[2]
                /\ lift_target(ev.start, i).ori = ev.start.ori
        /\ \A i \in 1 .. LiftSteps - 1 :
                lift_target(ev.start, i).pos[3]
                    >= lift_target(ev.start, i - 1).pos[3]
        /\ ev.target.pos[3] = ev.start.pos[3] + LiftDistance

\* C17: close_fingers commands both finger motors to the same closing
\* velocity under the same force limit and always makes exactly 60 steps,
\* with or without contact and closed jaws; a PhysicsMetric evaluation
\* with a contact-free reset makes exactly 1 + 60 + 60 steps.
Thm_C17 ==
    /\ (ev.closed =>
            /\ ev.close_steps = 60
            /\ ev.motors.joints = <<0, 1>>
            /\ ev.motors.velocities[1] = ev.motors.velocities[2]
            /\ ev.motors.velocities[1] < 0
            /\ ev.motors.forces[1] = ev.motors.forces[2])
    /\ (op = "physics" /\ pc = "return" /\ ev.reset_contacts = <<>> =>
            steps = 1 + 60 + 60)
Wit_C17 ==
    /\ op = "physics" /\ pc = "return"
    /\ ev.reset_contacts = <<>>
    /\ ev.closed /\ ev.lifted
    /\ ev.contacts # <<>>
    /\ steps = 121

\* C18: remove_outside_objects never removes an object whose x and y
\* offsets from the origin, read once the objects are at rest, both lie
\* within [0, size], whatever its z.
Claim_C18 ==
    (/\ pc = "return"
     /\ op \in {"remove_outside_objects", "packed_generate", "pile_generate"}
     /\ err = "none") =>
        \A u \in Uids :
            (rest[u] \in DynStates /\ ~XYOutside(rest[u].pos, origin)) =>
                u \in Range(object_uids)

\* C19: in PackedScene.generate, after an attempt that ended in contact
\* every other object is in the state it had before that attempt, which is
\* the state saved before the object's first attempt: at the start of the
\* next attempt and, on exhaustion, after the object is discarded.
Thm_C19 ==
    /\ [](PackedRunning /\ gen.contacts # <<>> =>
            \A u \in ObjectBodies(bodies) \ {gen.uid} :
                dyn[u] = gen.state.dyn[u])
    /\ [][(pc = "for_attempt" /\ PackedRunning' /\ gen'.contacts # <<>>) =>
            \A u \in ObjectBodies(bodies') \ {gen.uid} : dyn'[u] = dyn[u]]_vars
Wit_C19 ==
    /\ pc = "for_urdf"
    /\ gen.contacts # <<>>
    /\ gen.attempts = 2
    /\ bodies[gen.uid] = "none"
    /\ \E u \in ObjectBodies(bodies) : dyn[u] # LoadState

\* C20: RobustPhysicsMetric.__call__ returns empty metadata whenever it
\* returns: (1.0, {}) when all sample_count trials passed, without the
\* object the Physics test named, and (1.0, {}) with no trial, no restore
\* and no step when sample_count is 0.
Thm_C20 ==
    /\ []((op = "robust" /\ pc = "return" /\ err = "none") =>
            /\ ret.meta = Unset
            /\ ret.quality \in {0, 1}
            /\ (ev.passed = ev.sample_count =>
                    ret = [quality |-> 1, meta |-> Unset]))
    /\ []((op = "robust" /\ pc = "return" /\ ev.sample_count = 0) =>
            /\ ret = [quality |-> 1, meta |-> Unset]
            /\ err = "none"
            /\ ev.trials = 0 /\ steps = 0 /\ ~ev.closed /\ ~ev.lifted)
    /\ [][(op = "robust" /\ ev.sample_count = 0) => dyn' = dyn]_vars
Wit_C20 ==
    /\ op = "robust" /\ pc = "return"
    /\ ret = [quality |-> 1, meta |-> Unset]
    /\ ev.sample_count = 2 /\ ev.passed = 2
    /\ ev.contacts # <<>>
    /\ ev.contacts[1] \in ObjectBodies(bodies)

====
